---------------------------- MODULE Spec2Model ----------------------------
(***************************************************************************)
(* A model of the maze solver's A* search (lib/astar.ts): one call of      *)
(* astar(grid, start, goal, onVisit?) as a state machine whose steps are   *)
(* the iterations of the main loop.                                        *)
(*                                                                         *)
(* Coordinates are the source's 0-based [x, y] pairs, x indexing the rows  *)
(* of the grid and y the cells of a row.  A grid is a sequence of rows;    *)
(* the JavaScript read grid[r][c] is modelled by ReadCell, with its three  *)
(* outcomes: a number, undefined (c outside row r) and a TypeError (row r  *)
(* does not exist).                                                        *)
(***************************************************************************)
EXTENDS Integers, Sequences, FiniteSets, TLC

VARIABLES
    grid,        \* the grid argument (immutable during the call)
    start,       \* the start argument
    goal,        \* the goal argument
    hasOnVisit,  \* whether the optional onVisit argument was supplied
    nodes,       \* the Node objects created so far; a node's id is its index
    openSet,     \* the openSet array, as node ids
    closedSet,   \* the closedSet Set<string>
    closedLog,   \* the points whose key was added to closedSet, in order
    visited,     \* the points passed to onVisit, in call order
    reads,       \* every grid read grid[r][c] made so far, as <<r, c>>
    drained,     \* whether the while condition was ever found false
    pc,          \* "loop", "returned" or "threw"
    result,      \* the returned path, or Null
    history,     \* the outcomes of the earlier calls of astar, oldest first
    clients,     \* server: the connections that are open
    received,    \* server: per connection, the messages received, in order
    outbox,      \* server: per connection, the messages sent, in order
    uiGrid,      \* MazeGrid: the grid state, a matrix of cell types
    uiStart,     \* MazeGrid: the start state, a coordinate or NoPoint
    uiGoal,      \* MazeGrid: the goal state, a coordinate or NoPoint
    mode,        \* MazeGrid: "wall", "start" or "goal"
    isConnected, \* MazeGrid: the connection status shown
    isSolving,   \* MazeGrid: whether a solve request is outstanding
    wsCurrent,   \* MazeGrid: the socket held in ws.current
    pendingClose \* MazeGrid: sockets closed by the effect's cleanup whose
                 \* close event has not been delivered yet

\* the state of one call of astar
astarVars == <<grid, start, goal, hasOnVisit, nodes, openSet, closedSet,
               closedLog, visited, reads, drained, pc, result>>

\* the state of the WebSocket server
serverVars == <<clients, received, outbox>>

\* the state of the MazeGrid component and of its sockets
uiVars == <<uiGrid, uiStart, uiGoal, mode, isConnected, isSolving,
            wsCurrent, pendingClose>>

\* what a call of astar cannot touch
envVars == <<history, serverVars, uiVars>>

vars == <<astarVars, envVars>>

\* ----------------------------------------------------------------------
\* Bounds of the inputs
\* ----------------------------------------------------------------------
MaxRows == 3    \* rectangular grids have 1..MaxRows rows
MaxCols == 3    \* ... and 1..MaxCols columns
JagRows == 2    \* ragged grids have 1..JagRows rows
JagCols == 2    \* ... each of 1..JagCols cells
MaxWalls == 4   \* rectangular grids have at most MaxWalls walls
MaxCalls == 3   \* astar is called at most MaxCalls times in a row
NumConns == 2   \* the server sees at most NumConns connections
MaxMsgs == 2    \* ... and receives at most MaxMsgs messages in all
UiRows == 1     \* the editor's maze has UiRows rows
UiCols == 3     \* ... and UiCols columns
MaxPending == 2 \* at most MaxPending close events are pending at a time

SIZE == 20      \* the side of the editor's maze

Null == [null |-> TRUE, path |-> <<>>]      \* the null return value
PathResult(p) == [null |-> FALSE, path |-> p]  \* a returned array of points
NoParent == 0           \* an absent parent field
CellValues == {0, 1}    \* 0 = passable, 1 = wall
NoPoint == <<>>         \* a start or goal that is null

\* ----------------------------------------------------------------------
\* Pure functions of the source
\* ----------------------------------------------------------------------
Abs(n) == IF n < 0 THEN -n ELSE n

\* a heuristic that overestimates: three times the Manhattan distance
heuristic_Overestimate(a, b) == 3 * (Abs(a[1] - b[1]) + Abs(a[2] - b[2]))

heuristic(a, b) == Abs(a[1] - b[1]) + Abs(a[2] - b[2])

nodeKey(p) == ToString(p[1]) \o "," \o ToString(p[2])

\* grid[r][c] in JavaScript
ReadCell(g, r, c) ==
    IF r \notin 0..(Len(g) - 1) THEN [kind |-> "TypeError", value |-> 0]
    ELSE IF c \notin 0..(Len(g[r + 1]) - 1) THEN [kind |-> "undefined", value |-> 0]
    ELSE [kind |-> "number", value |-> g[r + 1][c + 1]]

\* a passability test that forgets to compare with 0
IsZero_AnyNumber(v) == v.kind = "number"

\* grid[r][c] === 0
IsZero(v) == v.kind = "number" /\ v.value = 0

\* The four guarded reads of neighbors(), in source order; `on' is the left
\* operand of each &&, `at' the cell the right operand reads.
Probes(point, g) ==
    LET x == point[1]
        y == point[2]
    IN  << [on |-> x > 0,               at |-> <<x - 1, y>>],
           [on |-> x < Len(g) - 1,      at |-> <<x + 1, y>>],
           [on |-> y > 0,               at |-> <<x, y - 1>>],
           [on |-> y < Len(g[1]) - 1,   at |-> <<x, y + 1>>] >>

RECURSIVE ProbeFrom(_, _, _, _)
ProbeFrom(ps, i, g, acc) ==
    IF i > Len(ps) THEN acc
    ELSE IF ~ps[i].on THEN ProbeFrom(ps, i + 1, g, acc)
    ELSE LET v == ReadCell(g, ps[i].at[1], ps[i].at[2])
             rd == acc.reads \cup {ps[i].at}
         IN  IF v.kind = "TypeError"
             THEN [acc EXCEPT !.threw = TRUE, !.reads = rd]
             ELSE ProbeFrom(ps, i + 1, g,
                    [acc EXCEPT !.reads = rd,
                                !.results = IF IsZero(v) THEN Append(@, ps[i].at)
                                            ELSE @])

neighbors(point, g) ==
    ProbeFrom(Probes(point, g), 1, g,
              [threw |-> FALSE, results |-> <<>>, reads |-> {}])

\* a sort that is not stable: among equal f the later element goes first
RECURSIVE InsertByF_Unstable(_, _, _)
InsertByF_Unstable(id, sorted, ns) ==
    IF sorted = <<>> THEN <<id>>
    ELSE IF ns[Head(sorted)].f < ns[id].f
         THEN <<Head(sorted)>> \o InsertByF_Unstable(id, Tail(sorted), ns)
         ELSE <<id>> \o sorted

\* openSet.sort((a, b) => a.f - b.f): a stable sort by f
RECURSIVE InsertByF(_, _, _)
InsertByF(id, sorted, ns) ==
    IF sorted = <<>> THEN <<id>>
    ELSE IF ns[Head(sorted)].f <= ns[id].f
         THEN <<Head(sorted)>> \o InsertByF(id, Tail(sorted), ns)
         ELSE <<id>> \o sorted

RECURSIVE SortByF(_, _)
SortByF(os, ns) ==
    IF os = <<>> THEN <<>>
    ELSE InsertByF(os[Len(os)], SortByF(SubSeq(os, 1, Len(os) - 1), ns), ns)

\* a find that compares the point arrays by reference (n.point === nbr) and
\* so never finds a node
FindOpen_NeverFound(os, i, ns, key) == 0

\* openSet.find((n) => nodeKey(n.point) === nbrKey): the id found, or 0
RECURSIVE FindOpen(_, _, _, _)
FindOpen(os, i, ns, key) ==
    IF i > Len(os) THEN 0
    ELSE IF nodeKey(ns[os[i]].point) = key THEN os[i]
    ELSE FindOpen(os, i + 1, ns, key)

\* the for loop with an else-if branch that lowers g and f but leaves the
\* parent as it was
RECURSIVE Relax_StaleParent(_, _, _, _, _, _, _)
Relax_StaleParent(nbrs, i, cur, ns, os, closed, gl) ==
    IF i > Len(nbrs) THEN [nodes |-> ns, openSet |-> os]
    ELSE
      LET nbr == nbrs[i]
          gScore == ns[cur].g + 1
          openNode == FindOpen(os, 1, ns, nodeKey(nbr))
          hScore == heuristic(nbr, gl)
      IN  IF nodeKey(nbr) \in closed
          THEN Relax_StaleParent(nbrs, i + 1, cur, ns, os, closed, gl)
          ELSE IF openNode = 0
          THEN Relax_StaleParent(nbrs, i + 1, cur,
                     Append(ns, [point |-> nbr, g |-> gScore, h |-> hScore,
                                 f |-> gScore + hScore, parent |-> cur]),
                     Append(os, Len(ns) + 1), closed, gl)
          ELSE IF gScore < ns[openNode].g
          THEN Relax_StaleParent(nbrs, i + 1, cur,
                     [ns EXCEPT ![openNode].g = gScore,
                                ![openNode].f = gScore + ns[openNode].h],
                     os, closed, gl)
          ELSE Relax_StaleParent(nbrs, i + 1, cur, ns, os, closed, gl)

\* The for loop over nbrs: yields the node table and openSet after it
RECURSIVE Relax(_, _, _, _, _, _, _)
Relax(nbrs, i, cur, ns, os, closed, gl) ==
    IF i > Len(nbrs) THEN [nodes |-> ns, openSet |-> os]
    ELSE
      LET nbr == nbrs[i]
          nbrKey == nodeKey(nbr)
          gScore == ns[cur].g + 1
          openNode == FindOpen(os, 1, ns, nbrKey)
          hScore == heuristic(nbr, gl)
      IN  IF nbrKey \in closed
          THEN Relax(nbrs, i + 1, cur, ns, os, closed, gl)
          ELSE IF openNode = 0
          THEN Relax(nbrs, i + 1, cur,
                     Append(ns, [point |-> nbr, g |-> gScore, h |-> hScore,
                                 f |-> gScore + hScore, parent |-> cur]),
                     Append(os, Len(ns) + 1), closed, gl)
          ELSE IF gScore < ns[openNode].g
          THEN Relax(nbrs, i + 1, cur,
                     [ns EXCEPT ![openNode].g = gScore,
                                ![openNode].f = gScore + ns[openNode].h,
                                ![openNode].parent = cur],
                     os, closed, gl)
          ELSE Relax(nbrs, i + 1, cur, ns, os, closed, gl)

\* The reconstruction loop: points from the given node back along parent
RECURSIVE ParentChain(_, _)
ParentChain(id, ns) ==
    IF id = NoParent THEN <<>>
    ELSE <<ns[id].point>> \o ParentChain(ns[id].parent, ns)

Reverse(s) == [i \in 1..Len(s) |-> s[Len(s) + 1 - i]]

\* a reconstruction that forgets path.reverse()
ReconstructPath_NoReverse(id, ns) == ParentChain(id, ns)

\* a reconstruction whose loop stops at the node without parent (while
\* (curr.parent)) and so leaves the start out
ReconstructPath_DropStart(id, ns) == Tail(Reverse(ParentChain(id, ns)))

ReconstructPath(id, ns) == Reverse(ParentChain(id, ns))

\* ----------------------------------------------------------------------
\* Inputs
\* ----------------------------------------------------------------------
\* the r x c grid whose walls are the cells of W (1-based <<row, column>>)
GridOf(r, c, W) ==
    [i \in 1..r |-> [j \in 1..c |-> IF <<i, j>> \in W THEN 1 ELSE 0]]

\* rectangular grids of 0s and 1s with at most MaxWalls walls
RectGrids ==
    UNION { { GridOf(r, c, W) :
                W \in { V \in SUBSET ((1..r) \X (1..c)) : Cardinality(V) <= MaxWalls } } :
            r \in 1..MaxRows, c \in 1..MaxCols }

\* every grid of 0s and 1s, rows of different lengths included
JagRowSet == UNION { [1..c -> CellValues] : c \in 1..JagCols }

JagGrids == UNION { [1..r -> JagRowSet] : r \in 1..JagRows }

\* the cells of a grid, as 0-based points
CellsOf(g) ==
    UNION { { <<r, c>> : c \in 0..(Len(g[r + 1]) - 1) } : r \in 0..(Len(g) - 1) }

\* points around a ragged grid, one step beyond it on every side
NearPoints == (-1..JagRows) \X (-1..JagCols)

\* a 3 x 5 maze on which the search reaches a frontier node a second time
\* by a shorter way (from (1,0) to (2,4), node (0,2) is first given g = 5)
DetourGrid == << <<0, 0, 0, 0, 0>>,
                 <<0, 1, 0, 0, 0>>,
                 <<0, 0, 0, 1, 0>> >>

\* a maze whose rows have different lengths: (3,1) is six steps from (1,3)
\* by way of column 0, and eight by way of row 5
RaggedMaze == << <<0>>,
                 <<0, 0, 0, 0>>,
                 <<0, 1, 1, 0>>,
                 <<0, 0, 1, 0>>,
                 <<0, 0, 1, 0>>,
                 <<0, 0, 0, 0>> >>

\* the SIZE x SIZE maze without walls of the test suite and of the editor
EmptyMaze == [i \in 1..SIZE |-> [j \in 1..SIZE |-> 0]]

\* ----------------------------------------------------------------------
\* The call
\* ----------------------------------------------------------------------
\* the server before any connection
NoServer ==
    /\ clients = {}
    /\ received = [c \in 1..NumConns |-> <<>>]
    /\ outbox = [c \in 1..NumConns |-> <<>>]

\* a socket as the effect creates it: connecting, its handlers closed over
\* the start and goal of the render that created it
NewSocket(s, gl) ==
    [readyState |-> "CONNECTING", start |-> s, goal |-> gl,
     sent |-> <<>>, incoming |-> <<>>]

\* the component after its first render and effect
NoUi ==
    /\ uiGrid = [r \in 1..UiRows |-> [c \in 1..UiCols |-> "empty"]]
    /\ uiStart = NoPoint
    /\ uiGoal = NoPoint
    /\ mode = "wall"
    /\ isConnected = FALSE
    /\ isSolving = FALSE
    /\ wsCurrent = NewSocket(NoPoint, NoPoint)
    /\ pendingClose = 0

startNode == [point |-> start, g |-> 0, h |-> heuristic(start, goal),
              f |-> heuristic(start, goal), parent |-> NoParent]

\* The inputs of a call: rectangular grids with start and goal among their
\* cells (onVisit supplied, as this repository's callers do); all small
\* grids, ragged ones included, with start and goal in or just outside
\* them; the detour maze; the ragged maze; the empty SIZE x SIZE maze from
\* corner to corner.
Init ==
    /\ \/ /\ grid \in RectGrids
          /\ start \in CellsOf(grid)
          /\ goal \in CellsOf(grid)
          /\ hasOnVisit = TRUE
       \/ /\ grid \in JagGrids
          /\ start \in NearPoints
          /\ goal \in NearPoints
          /\ hasOnVisit \in BOOLEAN
       \/ /\ grid = DetourGrid
          /\ start \in CellsOf(grid)
          /\ goal \in CellsOf(grid)
          /\ hasOnVisit \in BOOLEAN
       \/ /\ grid = RaggedMaze
          /\ start = <<1, 3>>
          /\ goal = <<3, 1>>
          /\ hasOnVisit = TRUE
       \/ /\ grid = EmptyMaze
          /\ start = <<0, 0>>
          /\ goal = <<SIZE - 1, SIZE - 1>>
          /\ hasOnVisit \in BOOLEAN
    /\ nodes = <<startNode>>
    /\ openSet = <<1>>
    /\ closedSet = {}
    /\ closedLog = <<>>
    /\ visited = <<>>
    /\ reads = {}
    /\ drained = FALSE
    /\ pc = "loop"
    /\ result = Null
    /\ history = <<>>
    /\ NoServer
    /\ NoUi

\* what every iteration does first: sort, shift, closedSet.add, onVisit
sortedOpen == SortByF(openSet, nodes)
current == Head(sortedOpen)
AtGoal == nodes[current].point[1] = goal[1] /\ nodes[current].point[2] = goal[2]

Finalize ==
    /\ pc = "loop"
    /\ Len(openSet) > 0
    /\ closedSet' = closedSet \cup {nodeKey(nodes[current].point)}
    /\ closedLog' = Append(closedLog, nodes[current].point)
    /\ visited' = IF hasOnVisit THEN Append(visited, nodes[current].point)
                  ELSE visited

\* an iteration that finds current at the goal and returns the path
LoopGoal ==
    /\ Finalize
    /\ AtGoal
    /\ openSet' = Tail(sortedOpen)
    /\ result' = PathResult(ReconstructPath(current, nodes))
    /\ pc' = "returned"
    /\ UNCHANGED <<grid, start, goal, hasOnVisit, nodes, reads, drained>>
    /\ UNCHANGED envVars

\* an iteration that expands current
LoopExpand ==
    /\ Finalize
    /\ ~AtGoal
    /\ LET nb == neighbors(nodes[current].point, grid)
           after == Relax(nb.results, 1, current, nodes, Tail(sortedOpen),
                          closedSet', goal)
       IN  /\ ~nb.threw
           /\ reads' = reads \cup nb.reads
           /\ nodes' = after.nodes
           /\ openSet' = after.openSet
    /\ UNCHANGED <<grid, start, goal, hasOnVisit, drained, pc, result>>
    /\ UNCHANGED envVars

\* an iteration in which neighbors() raises a TypeError
LoopThrow ==
    /\ Finalize
    /\ ~AtGoal
    /\ LET nb == neighbors(nodes[current].point, grid)
       IN  /\ nb.threw
           /\ reads' = reads \cup nb.reads
    /\ openSet' = Tail(sortedOpen)
    /\ pc' = "threw"
    /\ UNCHANGED <<grid, start, goal, hasOnVisit, nodes, drained, result>>
    /\ UNCHANGED envVars

\* the while condition fails: return null
LoopExit ==
    /\ pc = "loop"
    /\ ~(Len(openSet) > 0)
    /\ drained' = TRUE
    /\ result' = Null
    /\ pc' = "returned"
    /\ UNCHANGED <<grid, start, goal, hasOnVisit, nodes, openSet, closedSet,
                   closedLog, visited, reads>>
    /\ UNCHANGED envVars

Next == LoopGoal \/ LoopExpand \/ LoopThrow \/ LoopExit

Spec == Init /\ [][Next]_vars

\* ----------------------------------------------------------------------
\* Calls in a row
\* ----------------------------------------------------------------------
\* what a finished call leaves behind for its caller
Outcome ==
    [grid |-> grid, start |-> start, goal |-> goal, onVisit |-> hasOnVisit,
     ended |-> pc, result |-> result, finalized |-> closedLog]

\* a next call that finds the closedSet of the call before (a closedSet
\* declared outside the function)
CallAgain_SharedClosedSet ==
    /\ pc # "loop"
    /\ Len(history) < MaxCalls - 1
    /\ history' = Append(history, Outcome)
    /\ \E sg \in { <<start, goal>>, <<goal, start>> } :
          /\ start' = sg[1]
          /\ goal' = sg[2]
          /\ nodes' = << [point |-> sg[1], g |-> 0, h |-> heuristic(sg[1], sg[2]),
                          f |-> heuristic(sg[1], sg[2]), parent |-> NoParent] >>
    /\ hasOnVisit' \in BOOLEAN
    /\ openSet' = <<1>>
    /\ closedLog' = <<>>
    /\ visited' = <<>>
    /\ reads' = {}
    /\ drained' = FALSE
    /\ pc' = "loop"
    /\ result' = Null
    /\ UNCHANGED <<grid, closedSet, serverVars, uiVars>>

\* After a call has ended, astar is called again on the same grid, with the
\* same start and goal or with the two exchanged, with or without onVisit:
\* openSet, closedSet and the nodes are locals of the new call.
CallAgain ==
    /\ pc # "loop"
    /\ Len(history) < MaxCalls - 1
    /\ history' = Append(history, Outcome)
    /\ \E sg \in { <<start, goal>>, <<goal, start>> } :
          /\ start' = sg[1]
          /\ goal' = sg[2]
          /\ nodes' = << [point |-> sg[1], g |-> 0, h |-> heuristic(sg[1], sg[2]),
                          f |-> heuristic(sg[1], sg[2]), parent |-> NoParent] >>
    /\ hasOnVisit' \in BOOLEAN
    /\ openSet' = <<1>>
    /\ closedSet' = {}
    /\ closedLog' = <<>>
    /\ visited' = <<>>
    /\ reads' = {}
    /\ drained' = FALSE
    /\ pc' = "loop"
    /\ result' = Null
    /\ UNCHANGED <<grid, serverVars, uiVars>>

\* first calls: every small grid, ragged ones included, with start in or
\* just outside it and goal in it; the detour maze
InitRepeat ==
    /\ \/ /\ grid \in JagGrids
          /\ start \in NearPoints
          /\ goal \in CellsOf(grid)
       \/ /\ grid = DetourGrid
          /\ start \in CellsOf(grid)
          /\ goal \in CellsOf(grid)
    /\ hasOnVisit \in BOOLEAN
    /\ nodes = <<startNode>>
    /\ openSet = <<1>>
    /\ closedSet = {}
    /\ closedLog = <<>>
    /\ visited = <<>>
    /\ reads = {}
    /\ drained = FALSE
    /\ pc = "loop"
    /\ result = Null
    /\ history = <<>>
    /\ NoServer
    /\ NoUi

NextRepeat == LoopGoal \/ LoopExpand \/ LoopThrow \/ LoopExit \/ CallAgain

SpecRepeat == InitRepeat /\ [][NextRepeat]_vars

\* ----------------------------------------------------------------------
\* A whole call of astar
\* ----------------------------------------------------------------------
\* The main loop run to its end: what the call returns or that it threw,
\* the coordinates handed to onVisit and the coordinates finalized.
RECURSIVE AstarLoop(_, _, _, _, _, _, _)
AstarLoop(g, gl, ns, os, closed, vis, onVisit) ==
    IF ~(Len(os) > 0)
    THEN [threw |-> FALSE, result |-> Null, visited |-> vis,
          finalized |-> closed.log]
    ELSE
      LET sorted == SortByF(os, ns)
          cur == Head(sorted)
          pt == ns[cur].point
          closed2 == [keys |-> closed.keys \cup {nodeKey(pt)},
                      log |-> Append(closed.log, pt)]
          vis2 == IF onVisit THEN Append(vis, pt) ELSE vis
      IN  IF pt[1] = gl[1] /\ pt[2] = gl[2]
          THEN [threw |-> FALSE, result |-> PathResult(ReconstructPath(cur, ns)),
                visited |-> vis2, finalized |-> closed2.log]
          ELSE
            LET nb == neighbors(pt, g)
                after == Relax(nb.results, 1, cur, ns, Tail(sorted),
                               closed2.keys, gl)
            IN  IF nb.threw
                THEN [threw |-> TRUE, result |-> Null, visited |-> vis2,
                      finalized |-> closed2.log]
                ELSE AstarLoop(g, gl, after.nodes, after.openSet, closed2,
                               vis2, onVisit)

astar(g, s, gl, onVisit) ==
    AstarLoop(g, gl,
              << [point |-> s, g |-> 0, h |-> heuristic(s, gl),
                  f |-> heuristic(s, gl), parent |-> NoParent] >>,
              <<1>>, [keys |-> {}, log |-> <<>>], <<>>, onVisit)

\* ----------------------------------------------------------------------
\* The WebSocket server
\* ----------------------------------------------------------------------
\* What clients send: solveMaze requests for one-row mazes, from the first
\* cell or from a point outside the maze; a message of another type; text
\* that is not JSON.
SrvMazes == [1..1 -> [1..3 -> CellValues]]

SolveMessages ==
    { [type |-> "solveMaze", maze |-> m, start |-> s, goal |-> gl] :
        m \in SrvMazes, s \in { <<0, 0>>, <<-1, 1>> },
        gl \in { <<0, 0>>, <<0, 2>> } }

OtherMessage == [type |-> "other"]
NotJson == [text |-> "not JSON"]

ClientMessages == SolveMessages \cup {OtherMessage, NotJson}

\* the reply built from what astar returned and what onVisit collected
MazeSolved(run) ==
    [type |-> "mazeSolved",
     path |-> run.result,
     pathLength |-> IF ~run.result.null THEN Len(run.result.path) ELSE 0,
     visitedNodesCount |-> Len(run.visited)]

\* The message handler of a connection: the messages it sends for one
\* received message.  JSON.parse or astar throwing ends in the catch
\* block, which logs and sends nothing.
OnMessage(m) ==
    IF "type" \notin DOMAIN m THEN <<>>
    ELSE IF m.type = "solveMaze"
    THEN LET run == astar(m.maze, m.start, m.goal, TRUE)
         IN  IF run.threw THEN <<>> ELSE << MazeSolved(run) >>
    ELSE <<>>

\* the calls of astar are finished and none is running
NoCall ==
    /\ grid = << <<0>> >>
    /\ start = <<0, 0>>
    /\ goal = <<0, 0>>
    /\ hasOnVisit = TRUE
    /\ nodes = <<>>
    /\ openSet = <<>>
    /\ closedSet = {}
    /\ closedLog = <<>>
    /\ visited = <<>>
    /\ reads = {}
    /\ drained = FALSE
    /\ pc = "returned"
    /\ result = Null
    /\ history = <<>>

InitServer == NoCall /\ NoServer /\ NoUi

\* the number of messages received on connections 1..c
RECURSIVE ReceivedUpTo(_)
ReceivedUpTo(c) == IF c = 0 THEN 0 ELSE Len(received[c]) + ReceivedUpTo(c - 1)

\* a client connects: the server registers the handlers of the connection
\* (a connection is new: nothing was received on it before)
Connection(c) ==
    /\ c \notin clients
    /\ received[c] = <<>>
    /\ clients' = clients \cup {c}
    /\ UNCHANGED <<astarVars, history, received, outbox, uiVars>>

\* a message arrives on an open connection and its handler runs
Message(c) ==
    /\ c \in clients
    /\ ReceivedUpTo(NumConns) < MaxMsgs
    /\ \E m \in ClientMessages :
          /\ received' = [received EXCEPT ![c] = Append(@, m)]
          /\ outbox' = [outbox EXCEPT ![c] = @ \o OnMessage(m)]
    /\ UNCHANGED <<astarVars, history, clients, uiVars>>

\* the connection closes: the server logs it
Close(c) ==
    /\ c \in clients
    /\ clients' = clients \ {c}
    /\ UNCHANGED <<astarVars, history, received, outbox, uiVars>>

NextServer == \E c \in 1..NumConns : Connection(c) \/ Message(c) \/ Close(c)

SpecServer == InitServer /\ [][NextServer]_vars

\* ----------------------------------------------------------------------
\* The MazeGrid component
\* ----------------------------------------------------------------------
Modes == {"wall", "start", "goal"}
UiCells == (0..(UiRows - 1)) \X (0..(UiCols - 1))

\* the effect with dependencies [start, goal] runs again: its cleanup calls
\* close() on the socket in ws.current, which is connecting or open and so
\* owes a close event and delivers no message any more; the effect then
\* puts a new socket in ws.current
RunEffect(s, gl) ==
    /\ pendingClose < MaxPending
    /\ pendingClose' = pendingClose + 1
    /\ wsCurrent' = NewSocket(s, gl)

\* a click on a mode button
SetMode(m) ==
    /\ mode' = m
    /\ UNCHANGED <<uiGrid, uiStart, uiGoal, isConnected, isSolving,
                   wsCurrent, pendingClose>>
    /\ UNCHANGED <<astarVars, history, serverVars>>

\* the cell a start or goal click leaves behind and the cell it marks
Moved(g, old, row, col, type) ==
    LET cleared == IF old # NoPoint
                   THEN [g EXCEPT ![old[1] + 1][old[2] + 1] = "empty"]
                   ELSE g
    IN  [cleared EXCEPT ![row + 1][col + 1] = type]

\* a click on the cell (row, col)
handleClick(row, col) ==
    /\ \/ /\ mode = "wall"
          /\ uiGrid' = [uiGrid EXCEPT ![row + 1][col + 1] =
                            IF @ = "wall" THEN "empty" ELSE "wall"]
          /\ UNCHANGED <<uiStart, uiGoal, wsCurrent, pendingClose>>
       \/ /\ mode = "start"
          /\ uiGrid' = Moved(uiGrid, uiStart, row, col, "start")
          /\ uiStart' = <<row, col>>
          /\ RunEffect(<<row, col>>, uiGoal)
          /\ UNCHANGED uiGoal
       \/ /\ mode = "goal"
          /\ uiGrid' = Moved(uiGrid, uiGoal, row, col, "goal")
          /\ uiGoal' = <<row, col>>
          /\ RunEffect(uiStart, <<row, col>>)
          /\ UNCHANGED uiStart
    /\ UNCHANGED <<mode, isConnected, isSolving>>
    /\ UNCHANGED <<astarVars, history, serverVars>>

numericMaze ==
    [r \in 1..UiRows |-> [c \in 1..UiCols |->
        IF uiGrid[r][c] = "wall" THEN 1 ELSE 0]]

\* A click on the Solve button, which is enabled when start and goal are
\* set, isConnected is true and isSolving is false.  send() on a socket
\* that is still connecting throws and sends nothing; the state update
\* made before it stays.
handleSolve ==
    /\ uiStart # NoPoint
    /\ uiGoal # NoPoint
    /\ isConnected
    /\ ~isSolving
    /\ isSolving' = TRUE
    /\ wsCurrent' =
          IF wsCurrent.readyState = "OPEN"
          THEN [wsCurrent EXCEPT !.sent =
                   Append(@, [type |-> "solveMaze", maze |-> numericMaze,
                              start |-> uiStart, goal |-> uiGoal])]
          ELSE wsCurrent
    /\ UNCHANGED <<uiGrid, uiStart, uiGoal, mode, isConnected, pendingClose>>
    /\ UNCHANGED <<astarVars, history, serverVars>>

\* a click on Clear Grid; the effect runs again when start or goal changes
clearGrid ==
    /\ uiGrid' = [r \in 1..UiRows |-> [c \in 1..UiCols |-> "empty"]]
    /\ uiStart' = NoPoint
    /\ uiGoal' = NoPoint
    /\ IF uiStart # NoPoint \/ uiGoal # NoPoint
       THEN RunEffect(NoPoint, NoPoint)
       ELSE UNCHANGED <<wsCurrent, pendingClose>>
    /\ UNCHANGED <<mode, isConnected, isSolving>>
    /\ UNCHANGED <<astarVars, history, serverVars>>

WithoutPath(g) ==
    [r \in 1..UiRows |-> [c \in 1..UiCols |->
        IF g[r][c] = "path" THEN "empty" ELSE g[r][c]]]

\* a click on Clear Path
clearPath ==
    /\ uiGrid' = WithoutPath(uiGrid)
    /\ UNCHANGED <<uiStart, uiGoal, mode, isConnected, isSolving,
                   wsCurrent, pendingClose>>
    /\ UNCHANGED <<astarVars, history, serverVars>>

\* the socket in ws.current connects: onopen
onopen ==
    /\ wsCurrent.readyState = "CONNECTING"
    /\ wsCurrent' = [wsCurrent EXCEPT !.readyState = "OPEN"]
    /\ isConnected' = TRUE
    /\ UNCHANGED <<uiGrid, uiStart, uiGoal, mode, isSolving, pendingClose>>
    /\ UNCHANGED <<astarVars, history, serverVars>>

\* the close event of a socket that the cleanup closed: onclose
onclose ==
    /\ pendingClose > 0
    /\ pendingClose' = pendingClose - 1
    /\ isConnected' = FALSE
    /\ UNCHANGED <<uiGrid, uiStart, uiGoal, mode, isSolving, wsCurrent>>
    /\ UNCHANGED <<astarVars, history, serverVars>>

\* the requests the component can send
UiRequests ==
    { [type |-> "solveMaze", maze |-> m, start |-> s, goal |-> gl] :
        m \in [1..UiRows -> [1..UiCols -> CellValues]],
        s \in UiCells, gl \in UiCells }

\* what the server's message handler sends for each of them
ServerReplies == [m \in UiRequests |-> OnMessage(m)]

\* the server receives the request at the head of the connection and its
\* message handler runs
ServerHandles ==
    /\ wsCurrent.sent # <<>>
    /\ wsCurrent' = [wsCurrent EXCEPT
                        !.sent = Tail(@),
                        !.incoming = @ \o ServerReplies[Head(wsCurrent.sent)]]
    /\ UNCHANGED <<uiGrid, uiStart, uiGoal, mode, isConnected, isSolving,
                   pendingClose>>
    /\ UNCHANGED <<astarVars, history, serverVars>>

\* the grid after a mazeSolved message with the given path, drawn by the
\* handler of a socket created with start s and goal gl
Solved(g, path, s, gl) ==
    LET cleared == WithoutPath(g)
        onPath(r, c) == /\ ~path.null
                        /\ \E i \in 1..Len(path.path) :
                              path.path[i] = <<r - 1, c - 1>>
        drawn == [r \in 1..UiRows |-> [c \in 1..UiCols |->
                    IF onPath(r, c) /\ cleared[r][c] \notin {"start", "goal", "wall"}
                    THEN "path" ELSE cleared[r][c]]]
        withStart == IF s # NoPoint
                     THEN [drawn EXCEPT ![s[1] + 1][s[2] + 1] = "start"]
                     ELSE drawn
    IN  IF gl # NoPoint
        THEN [withStart EXCEPT ![gl[1] + 1][gl[2] + 1] = "goal"]
        ELSE withStart

\* a message arrives on the open socket in ws.current: onmessage
onmessage ==
    /\ wsCurrent.readyState = "OPEN"
    /\ wsCurrent.incoming # <<>>
    /\ LET message == Head(wsCurrent.incoming)
       IN  IF message.type = "mazeSolved"
           THEN /\ uiGrid' = Solved(uiGrid, message.path,
                                    wsCurrent.start, wsCurrent.goal)
                /\ isSolving' = FALSE
           ELSE UNCHANGED <<uiGrid, isSolving>>
    /\ wsCurrent' = [wsCurrent EXCEPT !.incoming = Tail(@)]
    /\ UNCHANGED <<uiStart, uiGoal, mode, isConnected, pendingClose>>
    /\ UNCHANGED <<astarVars, history, serverVars>>

InitUi == NoCall /\ NoServer /\ NoUi

NextUi ==
    \/ \E m \in Modes : SetMode(m)
    \/ \E cell \in UiCells : handleClick(cell[1], cell[2])
    \/ handleSolve
    \/ clearGrid
    \/ clearPath
    \/ onopen
    \/ onclose
    \/ ServerHandles
    \/ onmessage

SpecUi == InitUi /\ [][NextUi]_vars

\* the sockets' events are delivered and the server handles what reaches it
FairSpecUi ==
    /\ SpecUi
    /\ WF_vars(onopen)
    /\ WF_vars(onclose)
    /\ WF_vars(ServerHandles)
    /\ WF_vars(onmessage)

\* ----------------------------------------------------------------------
\* Reference notions used by the properties
\* ----------------------------------------------------------------------
\* p is a cell of g: 0 <= p[1] < number of rows, 0 <= p[2] < length of row
InGrid(g, p) ==
    /\ p[1] \in 0..(Len(g) - 1)
    /\ p[2] \in 0..(Len(g[p[1] + 1]) - 1)

\* p is a cell of g whose value is 0
Passable(g, p) == InGrid(g, p) /\ g[p[1] + 1][p[2] + 1] = 0

\* the passable cells one orthogonal unit step away from p
StepsFrom(g, p) ==
    { q \in { <<p[1] - 1, p[2]>>, <<p[1] + 1, p[2]>>,
              <<p[1], p[2] - 1>>, <<p[1], p[2] + 1>> } : Passable(g, q) }

\* breadth-first search by levels: the number of steps to target, or -1
RECURSIVE BfsFrom(_, _, _, _, _)
BfsFrom(g, frontier, seen, target, d) ==
    IF target \in frontier THEN d
    ELSE IF frontier = {} THEN -1
    ELSE LET nxt == (UNION { StepsFrom(g, p) : p \in frontier }) \ seen
         IN  BfsFrom(g, nxt, seen \cup nxt, target, d + 1)

\* the least number of orthogonal unit steps, each into a passable cell,
\* that lead from s to t; -1 when no such sequence of steps exists
BfsDistance(g, s, t) == BfsFrom(g, {s}, {s}, t, 0)

\* breadth-first search by levels from s: the sequence of the sets of cells
\* at 0, 1, 2, ... steps
RECURSIVE BfsLevelsFrom(_, _, _, _)
BfsLevelsFrom(g, frontier, seen, acc) ==
    IF frontier = {} THEN acc
    ELSE LET nxt == (UNION { StepsFrom(g, p) : p \in frontier }) \ seen
         IN  BfsLevelsFrom(g, nxt, seen \cup nxt, Append(acc, frontier))

BfsLevels(g, s) == BfsLevelsFrom(g, {s}, {s}, <<>>)

Rectangular(g) == \A r \in 1..Len(g) : Len(g[r]) = Len(g[1])

NoWalls(g) == \A p \in CellsOf(g) : Passable(g, p)

Returned == pc = "returned"
ReturnedPath == pc = "returned" /\ ~result.null
ReturnedNull == pc = "returned" /\ result.null

UnitStep(p, q) ==
    \/ Abs(p[1] - q[1]) = 1 /\ p[2] = q[2]
    \/ p[1] = q[1] /\ Abs(p[2] - q[2]) = 1

\* the elements of a sequence
Range(s) == { s[i] : i \in 1..Len(s) }

\* no two positions of s hold the same element
NoRepeats(s) == Cardinality(Range(s)) = Len(s)

ValidCall ==
    /\ Rectangular(grid)
    /\ InGrid(grid, start) /\ Passable(grid, start)
    /\ InGrid(grid, goal) /\ Passable(grid, goal)

\* ----------------------------------------------------------------------
\* Properties
\* ----------------------------------------------------------------------
\* C1: on a rectangular grid, with in-bounds passable start and goal and the
\* goal reachable from start by orthogonal unit steps through passable
\* cells, astar does not fail and, when it returns, returns a path whose
\* number of coordinates minus one is the breadth-first shortest distance;
\* on a grid without walls that is the Manhattan distance, and the path
\* from (0,0) to (19,19) of the 20 x 20 maze has 39 coordinates.
C1_ShortestPath ==
    (ValidCall /\ BfsDistance(grid, start, goal) >= 0) =>
        /\ pc # "threw"
        /\ Returned =>
             /\ ~result.null
             /\ Len(result.path) - 1 = BfsDistance(grid, start, goal)
             /\ NoWalls(grid) => Len(result.path) - 1 = heuristic(start, goal)
             /\ (grid = EmptyMaze /\ start = <<0, 0>> /\ goal = <<19, 19>>)
                    => Len(result.path) = 39

\* a returned shortest path that is longer than the Manhattan distance
C1_Witness ==
    /\ ValidCall
    /\ ReturnedPath
    /\ Len(result.path) - 1 = BfsDistance(grid, start, goal)
    /\ Len(result.path) - 1 > heuristic(start, goal)

\* C2 (as claimed): every returned path moves by exactly 1 in exactly one
\* component between consecutive coordinates, and all its coordinates, the
\* first included, are cells of value 0.
C2_StepsAndPassable ==
    ReturnedPath =>
        /\ \A i \in 1..(Len(result.path) - 1) :
               UnitStep(result.path[i], result.path[i + 1])
        /\ \A i \in 1..Len(result.path) : Passable(grid, result.path[i])

\* C3: a returned path is non-empty, begins at start and ends at goal.
C3_PathEnds ==
    ReturnedPath =>
        /\ Len(result.path) >= 1
        /\ result.path[1] = start
        /\ result.path[Len(result.path)] = goal

\* a returned path of at least three coordinates
C3_Witness ==
    /\ ReturnedPath
    /\ Len(result.path) >= 3
    /\ result.path[1] = start
    /\ result.path[Len(result.path)] = goal

\* C4: with start and goal in bounds and no sequence of orthogonal steps
\* through passable cells from start to goal, astar does not fail, returns
\* null, and returns only once the frontier has been found empty.
C4_UnreachableNull ==
    (InGrid(grid, start) /\ InGrid(grid, goal)
       /\ BfsDistance(grid, start, goal) = -1) =>
        /\ pc # "threw"
        /\ Returned => (result.null /\ drained /\ openSet = <<>>)

\* null returned for a passable goal that walls cut off from a passable
\* start, after the search finalized start and at least one more cell
C4_Witness ==
    /\ ReturnedNull
    /\ InGrid(grid, start) /\ Passable(grid, start)
    /\ InGrid(grid, goal) /\ Passable(grid, goal)
    /\ BfsDistance(grid, start, goal) = -1
    /\ Len(closedLog) >= 2
    /\ drained

\* C5: for an in-bounds passable cell c, astar(grid, c, c) returns [c] in
\* its first iteration, having finalized exactly one coordinate.
C5_StartIsGoal ==
    (start = goal /\ InGrid(grid, start) /\ Passable(grid, start)) =>
        /\ pc # "threw"
        /\ pc = "loop" => closedLog = <<>>
        /\ Returned =>
             /\ result = PathResult(<<start>>)
             /\ closedLog = <<start>>
             /\ Cardinality(closedSet) = 1

\* [c] returned on a grid that has other passable cells to explore
C5_Witness ==
    /\ Returned
    /\ start = goal
    /\ Passable(grid, start)
    /\ result = PathResult(<<start>>)
    /\ StepsFrom(grid, start) # {}

\* C6 (as claimed): with start in bounds and the goal cell blocked, astar
\* returns null.
C6_BlockedGoalNull ==
    (InGrid(grid, start) /\ InGrid(grid, goal) /\ ~Passable(grid, goal)) =>
        /\ pc # "threw"
        /\ Returned => result.null

\* C7 (as claimed): with the start cell blocked, astar returns null.
C7_BlockedStartNull ==
    (InGrid(grid, start) /\ ~Passable(grid, start)) =>
        /\ pc # "threw"
        /\ Returned => result.null

\* C8 (as claimed): astar never raises an exception, whatever start and
\* goal, and returns null when start or goal lies outside the grid.
C8_NeverThrows ==
    /\ pc # "threw"
    /\ (Returned /\ (~InGrid(grid, start) \/ ~InGrid(grid, goal)))
           => result.null

\* C9 (as claimed): with start in bounds, every grid read grid[r][c] has
\* 0 <= r < number of rows and 0 <= c < length of row r, also on grids whose
\* rows have different lengths.
C9_ReadsInBounds ==
    InGrid(grid, start) => \A rd \in reads : InGrid(grid, rd)

\* C10 (as claimed): when onVisit is supplied, the coordinates passed to it
\* are exactly the finalized ones, in finalization order, none of them
\* twice and none of them outside the grid.
C10_OnVisitOncePerFinalized ==
    hasOnVisit =>
        /\ visited = closedLog
        /\ Cardinality(closedSet) = Len(closedLog)
        /\ NoRepeats(visited)
        /\ \A i \in 1..Len(visited) : InGrid(grid, visited[i])

\* the nodes of the frontier that carry its smallest f
MinFOpen == { id \in Range(openSet) :
                \A o \in Range(openSet) : nodes[id].f <= nodes[o].f }

\* the node an iteration removes: in openSet before the step, not after
RemovedNodes == Range(openSet) \ Range(openSet')

\* the nodes whose coordinate has been finalized
ClosedNodes == { id \in 1..Len(nodes) : nodes[id].point \in Range(closedLog) }

\* C11 (as claimed): the main loop finalizes no coordinate twice, makes at
\* most (number of cells + 1) iterations, and ends only by returning a path
\* or by finding the frontier empty; it never ends in another way.
C11_TerminatesByReturn ==
    /\ NoRepeats(closedLog)
    /\ Len(closedLog) <= Cardinality(CellsOf(grid)) + 1
    /\ pc \in {"loop", "returned"}
    /\ Returned => (~result.null \/ (drained /\ openSet = <<>>))

\* C15 (as claimed): with an in-bounds passable start, every node removed
\* from the frontier carries, when removed and ever after, the least number
\* of orthogonal steps through passable cells from start to its coordinate.
C15_FinalizedGIsShortest ==
    (InGrid(grid, start) /\ Passable(grid, start)) =>
        LET levels == BfsLevels(grid, start)
        IN  \A id \in ClosedNodes :
                /\ nodes[id].g + 1 \in 1..Len(levels)
                /\ nodes[id].point \in levels[nodes[id].g + 1]

\* the coordinates held by the nodes of the frontier, one entry per node
OpenPoints(os, ns) == [i \in 1..Len(os) |-> ns[os[i]].point]

\* C16: no coordinate is both finalized and held by a frontier node, the
\* frontier holds at most one node per coordinate, and no step inserts into
\* the frontier a node of an already finalized coordinate.
C16_OpenClosedDisjoint ==
    /\ [](/\ Range(OpenPoints(openSet, nodes)) \cap Range(closedLog) = {}
          /\ NoRepeats(OpenPoints(openSet, nodes)))
    /\ [][\A id \in Range(openSet') \ Range(openSet) :
              nodes'[id].point \notin Range(closedLog')]_vars

\* a frontier node that borders two finalized coordinates: it was met a
\* second time while in the frontier, and its finalized neighbours were
\* skipped when it was expanded from
C16_Witness ==
    /\ pc = "loop"
    /\ Len(closedLog) >= 3
    /\ \E id \in Range(openSet) :
          Cardinality({ c \in Range(closedLog) : UnitStep(c, nodes[id].point) }) >= 2

\* the nodes met by following parent links from id, id first; at most
\* `fuel' links are followed
RECURSIVE Ancestors(_, _, _)
Ancestors(id, ns, fuel) ==
    IF id \notin 1..Len(ns) THEN <<>>
    ELSE IF fuel = 0 THEN <<id>>
    ELSE <<id>> \o Ancestors(ns[id].parent, ns, fuel - 1)

\* C17: every node but the start node has a parent whose g is one less
\* than its own and whose coordinate is an orthogonal neighbour; following
\* parent links from any node visits no coordinate twice, lowers g at every
\* link and reaches the start node after exactly g links.
C17_ParentChain ==
    /\ nodes[1].point = start /\ nodes[1].g = 0 /\ nodes[1].parent = NoParent
    /\ \A id \in 2..Len(nodes) :
          /\ nodes[id].parent \in 1..Len(nodes)
          /\ nodes[nodes[id].parent].g = nodes[id].g - 1
          /\ UnitStep(nodes[nodes[id].parent].point, nodes[id].point)
    /\ \A id \in 1..Len(nodes) :
          LET chain == Ancestors(id, nodes, Len(nodes))
          IN  /\ Len(chain) = nodes[id].g + 1
              /\ chain[Len(chain)] = 1
              /\ NoRepeats([i \in 1..Len(chain) |-> nodes[chain[i]].point])
              /\ \A i \in 1..(Len(chain) - 1) :
                     nodes[chain[i + 1]].g < nodes[chain[i]].g

\* on the detour maze from (1,0), the node of (0,2) after its parent was
\* reassigned from the node of (1,2) to the node of (0,1)
C17_Witness ==
    /\ grid = DetourGrid
    /\ start = <<1, 0>>
    /\ \E id \in 2..Len(nodes) :
          /\ nodes[id].point = <<0, 2>>
          /\ nodes[id].g = 3
          /\ nodes[nodes[id].parent].point = <<0, 1>>
          /\ \E o \in 1..Len(nodes) :
                nodes[o].point = <<1, 2>> /\ o < id /\ nodes[id].parent > o

\* C18 (as claimed): the node an iteration removes has the smallest f of
\* the frontier and, among the frontier nodes of that f, is the one that
\* was inserted earliest (nodes are numbered in insertion order).
C18_SmallestFEarliestInserted ==
    [][\A id \in RemovedNodes :
           /\ id \in MinFOpen
           /\ \A o \in MinFOpen : id <= o]_vars

\* C18 (amended): the node an iteration removes has the smallest f of the
\* frontier and, among the frontier nodes of that f, is the one that stands
\* first in the openSet array.
C18_SmallestFFirstInArray ==
    [][\A id \in RemovedNodes :
           /\ id \in MinFOpen
           /\ \A i, j \in 1..Len(openSet) :
                  (openSet[i] = id /\ openSet[j] \in MinFOpen) => i <= j]_vars

\* a frontier, about to lose a node, in which several nodes share the
\* smallest f and the first of them in the array is not the earliest
\* inserted
C18_Witness ==
    /\ pc = "loop"
    /\ Cardinality(MinFOpen) >= 2
    /\ \E i \in 1..Len(openSet) :
          /\ openSet[i] \in MinFOpen
          /\ \A j \in 1..(i - 1) : openSet[j] \notin MinFOpen
          /\ \E o \in MinFOpen : o < openSet[i]

\* two outcomes of calls with identical grid, start and goal
SameCall(a, b) == a.grid = b.grid /\ a.start = b.start /\ a.goal = b.goal

\* C12: two calls with identical grid, start and goal end the same way,
\* return identical results and finalize the same coordinates in the same
\* order, with or without onVisit and whatever was called in between.
C12_Deterministic ==
    LET done == IF pc = "loop" THEN history ELSE Append(history, Outcome)
    IN  \A i, j \in 1..Len(done) :
            SameCall(done[i], done[j]) =>
                /\ done[i].ended = done[j].ended
                /\ done[i].result = done[j].result
                /\ done[i].finalized = done[j].finalized

\* a third call that returned a path of three coordinates or more, as the
\* first call did with the other choice of onVisit, after a second call
\* with start and goal exchanged
C12_Witness ==
    /\ Len(history) = 2
    /\ ReturnedPath
    /\ Len(result.path) >= 3
    /\ SameCall(history[1], Outcome)
    /\ history[1].onVisit # hasOnVisit
    /\ ~SameCall(history[2], Outcome)
    /\ history[1].result = result

\* the solveMaze requests among the messages received on connection c
IsSolveMaze(m) == "type" \in DOMAIN m /\ m.type = "solveMaze"
SolveRequests(c) == SelectSeq(received[c], IsSolveMaze)

\* C13: on every connection the server has sent exactly one mazeSolved
\* message per solveMaze message received, in the order of the requests,
\* each with the path astar returned (or null), pathLength the number of
\* coordinates of that path (0 for null) and visitedNodesCount the number
\* of coordinates astar finalized.
C13_OneReplyPerRequest ==
    \A c \in 1..NumConns :
        /\ Len(outbox[c]) = Len(SolveRequests(c))
        /\ \A i \in 1..Len(outbox[c]) :
              LET req == SolveRequests(c)[i]
                  run == astar(req.maze, req.start, req.goal, TRUE)
              IN  /\ outbox[c][i].type = "mazeSolved"
                  /\ outbox[c][i].path = run.result
                  /\ outbox[c][i].pathLength =
                        (IF run.result.null THEN 0 ELSE Len(run.result.path))
                  /\ outbox[c][i].visitedNodesCount = Len(run.finalized)

\* the messages the server's documentation promises for one request:
\* solvingStarted, a nodeVisited per visited coordinate, then mazeSolved
RECURSIVE Streamed(_)
Streamed(reqs) ==
    IF reqs = <<>> THEN <<>>
    ELSE LET run == astar(Head(reqs).maze, Head(reqs).start, Head(reqs).goal, TRUE)
         IN  << "solvingStarted" >>
             \o [i \in 1..Len(run.visited) |-> "nodeVisited"]
             \o << "mazeSolved" >>
             \o Streamed(Tail(reqs))

\* C14: for every solve request the server sends solvingStarted, then one
\* nodeVisited message per coordinate astar visits, in visitation order,
\* then the final mazeSolved message.
C14_StreamsProgress ==
    \A c \in 1..NumConns :
        [i \in 1..Len(outbox[c]) |-> outbox[c][i].type] = Streamed(SolveRequests(c))

\* C19: every solveMaze request that handleSolve sends has start and goal
\* inside the maze it carries, and both cells are 0 in that maze.
C19_RequestsPassable ==
    \A i \in 1..Len(wsCurrent.sent) :
        LET req == wsCurrent.sent[i]
        IN  /\ InGrid(req.maze, req.start)
            /\ InGrid(req.maze, req.goal)
            /\ Passable(req.maze, req.start)
            /\ Passable(req.maze, req.goal)

\* C20: whenever isSolving is true it later becomes false again.
C20_SolvingEnds == isSolving ~> ~isSolving

\* C21: isConnected is true only while the socket in ws.current is open,
\* and once no open or close event is pending isConnected is true exactly
\* when the socket in ws.current is open.
C21_ConnectedMeansOpen ==
    /\ isConnected => wsCurrent.readyState = "OPEN"
    /\ (pendingClose = 0 /\ wsCurrent.readyState # "CONNECTING") =>
           (isConnected <=> wsCurrent.readyState = "OPEN")

=============================================================================
